---- MODULE Spec2Model ----
(***************************************************************************)
(* State-machine model of jsonapi.asyncio.handler.relationship:            *)
(* RelationshipHandler (__init__, prepare, build_body, get, post, patch,   *)
(* delete).  Each action is the code between two suspension points         *)
(* (awaits) of one coroutine.  The collaborators the handler consumes      *)
(* (type registry, persistence gateway, serializer, unserializer,          *)
(* validators, url reverser, json encoder) are modelled by their           *)
(* contracts.                                                              *)
(***************************************************************************)
EXTENDS Integers, Sequences, FiniteSets, TLC

VARIABLES
    request,        \* the inbound request: content_type, method, json
    typename,       \* self.typename
    relname,        \* self.relname
    resource_id,    \* self.resource_id
    real_typename,  \* self.real_typename
    resource,       \* self.resource
    relationship,   \* self.relationship
    response,       \* self.response
    pc,             \* position of the request's coroutine
    err,            \* the error kind raised, "none" while none was raised
    log,            \* the calls made by this handler instance, in order
    store,          \* the persistence gateway's durable records
    staged,         \* the gateway's unit of work: resources passed to save
    storeAtStart,   \* the durable records when the handler was constructed
    serialized,     \* the fragment serialize_relationship returned
    reqCount,       \* number of handler instances constructed so far
    prevDelete      \* the request before this one, when it was a DELETE
                    \* that was answered: its path and its response

vars == <<request, typename, relname, resource_id, real_typename, resource,
          relationship, response, pc, err, log, store, staged, storeAtStart,
          serialized, reqCount, prevDelete>>

\* Number of requests (handler instances) served one after the other.
MaxRequests == 2

JSONAPI == "application/vnd.api+json"

-----------------------------------------------------------------------------
(* Ordered mappings (collections.OrderedDict): sequences of <<key, value>>. *)

Has(d, k) == \E i \in DOMAIN d : d[i][1] = k

Get(d, k) == d[CHOOSE i \in DOMAIN d : d[i][1] = k][2]

\* d[k] = v : replaces in place, or appends a new key at the end
SetItem(d, k, v) ==
    IF Has(d, k)
    THEN [i \in DOMAIN d |-> IF d[i][1] = k THEN <<k, v>> ELSE d[i]]
    ELSE Append(d, <<k, v>>)

\* d.setdefault(k, v) : the mapping after the call
SetDefault(d, k, v) == IF Has(d, k) THEN d ELSE Append(d, <<k, v>>)

-----------------------------------------------------------------------------
(* The type registry (self.api).                                           *)

\* api.has_type
HasType(t) == t \in {"articles", "news"}

\* "news" is a subtype of "articles": stored news records are found under
\* both type names.
IsA(t, requested) == t = requested \/ (t = "news" /\ requested = "articles")

\* api.get_schema(t).relationships : relname -> descriptor
Relationships(t) ==
    IF t = "articles"
    THEN [comments |-> [to_many |-> TRUE], tags |-> [to_many |-> FALSE]]
    ELSE [comments |-> [to_many |-> TRUE], tags |-> [to_many |-> TRUE],
          editor |-> [to_many |-> FALSE]]

\* api.get_typename(resource)
GetTypename(r) == r.type

\* api.jsonapi_object
JsonapiObject == [version |-> "1.0", by |-> "api"]

\* api.reverse_url(typename=, endpoint=, id=, relname=)
ReverseUrl(t, endpoint, id, rn) ==
    [typename |-> t, endpoint |-> endpoint, id |-> id, relname |-> rn]

\* api.dump_json(document): the encoded document
DumpJson(document) == <<"json", document>>

-----------------------------------------------------------------------------
(* The persistence gateway (self.db).                                      *)

None == [id |-> "", type |-> "None", rels |-> [r \in {} |-> {}]]

IsNone(r) == r.type = "None"

NoTypename == "None"

Unset == [defined |-> FALSE, to_many |-> FALSE]

InitStore ==
    [id \in {"1", "2"} |->
        IF id = "1"
        THEN [id |-> "1", type |-> "articles",
              rels |-> [comments |-> {"c1"}, tags |-> {"c1"}]]
        ELSE [id |-> "2", type |-> "news",
              rels |-> [comments |-> {}, tags |-> {"c1"},
                        editor |-> {"c2"}]]]

\* db.get((typename, id)): the record, or None
DbGet(st, key) ==
    IF key[2] \in DOMAIN st /\ IsA(st[key[2]].type, key[1])
    THEN st[key[2]]
    ELSE None

\* db.save([resource]): stages the resource in the unit of work
DbSave(stg, r) == Append(stg, r)

\* db.commit(): flushes the unit of work into the durable records
DbCommit(st, stg) ==
    [id \in DOMAIN st |->
        IF \E i \in DOMAIN stg : stg[i].id = id
        THEN stg[CHOOSE i \in DOMAIN stg :
                    /\ stg[i].id = id
                    /\ \A j \in DOMAIN stg : stg[j].id = id => j <= i]
        ELSE st[id]]

-----------------------------------------------------------------------------
(* Validators, unserializer, serializer.                                   *)

\* validators.assert_relationship_object(d): TRUE when it does not raise
ValidRelationshipObject(d) == d.has_data

\* unserializer.extend_relationship: adds the submitted linkage
ExtendRelationship(r, rn, d) ==
    [r EXCEPT !.rels[rn] = @ \cup d.data]

\* unserializer.update_relationship: replaces the linkage
UpdateRelationship(r, rn, d) ==
    [r EXCEPT !.rels[rn] = d.data]

\* unserializer.clear_relationship: clears the linkage
ClearRelationship(r, rn) ==
    [r EXCEPT !.rels[rn] = {}]

\* What a serializer may put into the fragment besides data.
SerializerOutputs ==
    [links : {"absent", "self", "first_related"}, jsonapi : BOOLEAN]

SerializerLink(r, rn, key) == ReverseUrl(r.type, "serializer:" \o key, r.id, rn)

SerializerJsonapi == [version |-> "1.0", by |-> "serializer"]

\* serializer.serialize_relationship(resource, relname)
SerializeRelationship(ser, r, rn) ==
    <<  <<"data", r.rels[rn]>>  >>
    \o (IF ser.links = "self"
        THEN << <<"links", << <<"self", SerializerLink(r, rn, "self")>> >> >> >>
        ELSE IF ser.links = "first_related"
        THEN << <<"links", << <<"first", SerializerLink(r, rn, "first")>>,
                              <<"related", SerializerLink(r, rn, "related")>> >> >> >>
        ELSE << >>)
    \o (IF ser.jsonapi THEN << <<"jsonapi", SerializerJsonapi>> >> ELSE << >>)

-----------------------------------------------------------------------------
(* RelationshipHandler.build_body                                          *)

\* Variant: links.self and links.related are filled only when absent.
BuildBody_fillAbsent(ser, r, rtn, tn, rid, rn) ==
    LET document == SerializeRelationship(ser, r, rn)
        d1     == SetDefault(document, "links", << >>)
        links  == Get(d1, "links")
        links1 == SetDefault(links, "self",
                             ReverseUrl(tn, "relationship", rid, rn))
        links2 == SetDefault(links1, "related",
                             ReverseUrl(tn, "related", rid, rn))
        d2     == SetItem(d1, "links", links2)
        d3     == SetDefault(d2, "jsonapi", JsonapiObject)
    IN  DumpJson(d3)

\* Variant: the URLs are reversed for real_typename.
BuildBody_realTypename(ser, r, rtn, tn, rid, rn) ==
    LET document == SerializeRelationship(ser, r, rn)
        d1     == SetDefault(document, "links", << >>)
        links  == Get(d1, "links")
        links1 == SetItem(links, "self",
                          ReverseUrl(rtn, "relationship", rid, rn))
        links2 == SetItem(links1, "related",
                          ReverseUrl(rtn, "related", rid, rn))
        d2     == SetItem(d1, "links", links2)
        d3     == SetDefault(d2, "jsonapi", JsonapiObject)
    IN  DumpJson(d3)

\* Variant: the jsonapi key is assigned, not defaulted.
BuildBody_overwriteJsonapi(ser, r, rtn, tn, rid, rn) ==
    LET document == SerializeRelationship(ser, r, rn)
        d1     == SetDefault(document, "links", << >>)
        links  == Get(d1, "links")
        links1 == SetItem(links, "self",
                          ReverseUrl(tn, "relationship", rid, rn))
        links2 == SetItem(links1, "related",
                          ReverseUrl(tn, "related", rid, rn))
        d2     == SetItem(d1, "links", links2)
        d3     == SetItem(d2, "jsonapi", JsonapiObject)
    IN  DumpJson(d3)

BuildBody(ser, r, rtn, tn, rid, rn) ==
    LET document == SerializeRelationship(ser, r, rn)
        d1     == SetDefault(document, "links", << >>)
        links  == Get(d1, "links")
        links1 == SetItem(links, "self",
                          ReverseUrl(tn, "relationship", rid, rn))
        links2 == SetItem(links1, "related",
                          ReverseUrl(tn, "related", rid, rn))
        d2     == SetItem(d1, "links", links2)
        d3     == SetDefault(d2, "jsonapi", JsonapiObject)
    IN  DumpJson(d3)

-----------------------------------------------------------------------------
(* Requests.                                                               *)

ContentTypes ==
    { <<JSONAPI, "">>, <<JSONAPI, "charset=utf-8">>, <<"application/json", "">> }

TypeNames == {"articles", "news", "ghosts"}
ResourceIds == {"1", "2", "9"}
RelNames == {"comments", "tags", "editor", "nope"}
Methods == {"GET", "POST", "PATCH", "DELETE"}

NoJson == [has_data |-> FALSE, data |-> {}]

RelationshipObjects ==
    {NoJson} \cup {[has_data |-> TRUE, data |-> s] : s \in {{}, {"c1"}, {"c2"}}}

Requests ==
    { r \in [content_type : ContentTypes, method : Methods,
             json : RelationshipObjects, type : TypeNames,
             id : ResourceIds, relname : RelNames] :
        r.method \in {"GET", "DELETE"} => r.json = NoJson }

NoResponse == [content_type |-> "", status_code |-> 0, body |-> << >>]

NoSerialized == << >>

NoPrevDelete ==
    [answered |-> FALSE, typename |-> "", resource_id |-> "", relname |-> "",
     response |-> NoResponse, serialized |-> NoSerialized]

\* RelationshipHandler.__init__
HandlerInit(req) ==
    /\ request = [content_type |-> req.content_type, method |-> req.method,
                  json |-> req.json]
    /\ typename = req.type
    /\ relname = req.relname
    /\ real_typename = NoTypename
    /\ resource_id = req.id
    /\ resource = None
    /\ relationship = Unset
    /\ response = NoResponse
    /\ pc = "created"
    /\ err = "none"
    /\ log = << >>
    /\ staged = << >>
    /\ serialized = NoSerialized

Init ==
    /\ \E req \in Requests : HandlerInit(req)
    /\ store = InitStore
    /\ storeAtStart = InitStore
    /\ reqCount = 1
    /\ prevDelete = NoPrevDelete

-----------------------------------------------------------------------------
(* Raising: the coroutine ends with the error, nothing after it runs.      *)

Raise(kind, calls) ==
    /\ pc' = "failed"
    /\ err' = kind
    /\ log' = log \o calls \o <<"raise">>

\* The handler's caller: a method handler is awaited only after prepare()
\* returned, and it is the one of the request's method.
Dispatch(method) == pc = "prepared" /\ request.method = method

-----------------------------------------------------------------------------
(* RelationshipHandler.prepare                                             *)

\* Variant: the type is looked up before the content type is checked.
PrepareStart_typeFirst ==
    /\ pc = "created"
    /\ IF ~HasType(typename)
       THEN Raise("NotFound", <<"prepare">>)
       ELSE IF request.content_type[1] # JSONAPI
       THEN Raise("UnsupportedMediaType", <<"prepare">>)
       ELSE /\ pc' = "prepare_get"
            /\ log' = log \o <<"prepare", "db.get">>
            /\ err' = err
    /\ UNCHANGED <<request, typename, relname, resource_id, real_typename,
                   resource, relationship, response, store, staged,
                   storeAtStart, serialized, reqCount, prevDelete>>

\* Variant: the content type is checked only for the methods with a body.
PrepareStart_bodyOnly ==
    /\ pc = "created"
    /\ IF request.method \in {"POST", "PATCH"}
          /\ request.content_type[1] # JSONAPI
       THEN Raise("UnsupportedMediaType", <<"prepare">>)
       ELSE IF ~HasType(typename)
       THEN Raise("NotFound", <<"prepare">>)
       ELSE /\ pc' = "prepare_get"
            /\ log' = log \o <<"prepare", "db.get">>
            /\ err' = err
    /\ UNCHANGED <<request, typename, relname, resource_id, real_typename,
                   resource, relationship, response, store, staged,
                   storeAtStart, serialized, reqCount, prevDelete>>

\* prepare(), up to the suspension in "await self.db.get(...)"
PrepareStart ==
    /\ pc = "created"
    /\ IF request.content_type[1] # JSONAPI
       THEN Raise("UnsupportedMediaType", <<"prepare">>)
       ELSE IF ~HasType(typename)
       THEN Raise("NotFound", <<"prepare">>)
       ELSE /\ pc' = "prepare_get"
            /\ log' = log \o <<"prepare", "db.get">>
            /\ err' = err
    /\ UNCHANGED <<request, typename, relname, resource_id, real_typename,
                   resource, relationship, response, store, staged,
                   storeAtStart, serialized, reqCount, prevDelete>>

\* Variant: the descriptor is taken from the schema of the requested
\* typename whenever that schema declares the relationship.
PrepareResume_requestedDescriptor ==
    /\ pc = "prepare_get"
    /\ LET r == DbGet(store, <<typename, resource_id>>) IN
       /\ resource' = r
       /\ IF IsNone(r)
          THEN /\ Raise("NotFound", << >>)
               /\ UNCHANGED <<real_typename, relationship>>
          ELSE /\ real_typename' = GetTypename(r)
               /\ IF relname \notin DOMAIN Relationships(GetTypename(r))
                  THEN /\ Raise("NotFound", << >>)
                       /\ UNCHANGED relationship
                  ELSE /\ relationship' =
                            [defined |-> TRUE,
                             to_many |->
                                IF relname \in DOMAIN Relationships(typename)
                                THEN Relationships(typename)[relname].to_many
                                ELSE Relationships(GetTypename(r))[relname].to_many]
                       /\ pc' = "prepared"
                       /\ log' = Append(log, "prepared")
                       /\ err' = err
    /\ UNCHANGED <<request, typename, relname, resource_id, response, store,
                   staged, storeAtStart, serialized, reqCount, prevDelete>>

\* Variant: resource and real_typename are assigned only when every check
\* of prepare() has passed.
PrepareResume_assignOnSuccess ==
    /\ pc = "prepare_get"
    /\ LET r == DbGet(store, <<typename, resource_id>>) IN
       IF IsNone(r) \/ relname \notin DOMAIN Relationships(GetTypename(r))
       THEN /\ Raise("NotFound", << >>)
            /\ UNCHANGED <<resource, real_typename, relationship>>
       ELSE /\ resource' = r
            /\ real_typename' = GetTypename(r)
            /\ relationship' =
                  [defined |-> TRUE,
                   to_many |-> Relationships(GetTypename(r))[relname].to_many]
            /\ pc' = "prepared"
            /\ log' = Append(log, "prepared")
            /\ err' = err
    /\ UNCHANGED <<request, typename, relname, resource_id, response, store,
                   staged, storeAtStart, serialized, reqCount, prevDelete>>

\* Variant: the relationship is looked up in the schema of the requested
\* typename instead of the schema of real_typename.
PrepareResume_requestedSchema ==
    /\ pc = "prepare_get"
    /\ LET r == DbGet(store, <<typename, resource_id>>) IN
       /\ resource' = r
       /\ IF IsNone(r)
          THEN /\ Raise("NotFound", << >>)
               /\ UNCHANGED <<real_typename, relationship>>
          ELSE /\ real_typename' = GetTypename(r)
               /\ IF relname \notin DOMAIN Relationships(typename)
                  THEN /\ Raise("NotFound", << >>)
                       /\ UNCHANGED relationship
                  ELSE /\ relationship' =
                            [defined |-> TRUE,
                             to_many |-> Relationships(typename)[relname].to_many]
                       /\ pc' = "prepared"
                       /\ log' = Append(log, "prepared")
                       /\ err' = err
    /\ UNCHANGED <<request, typename, relname, resource_id, response, store,
                   staged, storeAtStart, serialized, reqCount, prevDelete>>

\* prepare(), from the return of db.get to the end
PrepareResume ==
    /\ pc = "prepare_get"
    /\ LET r == DbGet(store, <<typename, resource_id>>) IN
       /\ resource' = r
       /\ IF IsNone(r)
          THEN /\ Raise("NotFound", << >>)
               /\ UNCHANGED <<real_typename, relationship>>
          ELSE /\ real_typename' = GetTypename(r)
               /\ IF relname \notin DOMAIN Relationships(GetTypename(r))
                  THEN /\ Raise("NotFound", << >>)
                       /\ UNCHANGED relationship
                  ELSE /\ relationship' =
                            [defined |-> TRUE,
                             to_many |-> Relationships(GetTypename(r))[relname].to_many]
                       /\ pc' = "prepared"
                       /\ log' = Append(log, "prepared")
                       /\ err' = err
    /\ UNCHANGED <<request, typename, relname, resource_id, response, store,
                   staged, storeAtStart, serialized, reqCount, prevDelete>>

-----------------------------------------------------------------------------
(* The response part shared by the four method handlers:                   *)
(*   headers["content-type"], status_code, body = build_body()             *)

\* Variant: a POST is answered with 201.
Respond_created(ser, r) ==
    /\ response' = [content_type |-> JSONAPI,
                    status_code |-> IF request.method = "POST" THEN 201 ELSE 200,
                    body |-> BuildBody(ser, r, real_typename, typename,
                                       resource_id, relname)]
    /\ serialized' = SerializeRelationship(ser, r, relname)
    /\ pc' = "responded"
    /\ err' = err

Respond(ser, r) ==
    /\ response' = [content_type |-> JSONAPI, status_code |-> 200,
                    body |-> BuildBody(ser, r, real_typename, typename,
                                       resource_id, relname)]
    /\ serialized' = SerializeRelationship(ser, r, relname)
    /\ pc' = "responded"
    /\ err' = err

RespondCalls == <<"set_headers", "set_status", "build_body", "set_body">>

\* Variant: get() saves the resource like the mutating handlers.
Get_saves ==
    /\ Dispatch("GET")
    /\ \E ser \in SerializerOutputs : Respond(ser, resource)
    /\ staged' = DbSave(staged, resource)
    /\ log' = log \o <<"get", "db.save">> \o RespondCalls
    /\ UNCHANGED <<request, typename, relname, resource_id, real_typename,
                   resource, relationship, store, storeAtStart,
                   reqCount, prevDelete>>

\* RelationshipHandler.get
Get_ ==
    /\ Dispatch("GET")
    /\ \E ser \in SerializerOutputs : Respond(ser, resource)
    /\ log' = log \o <<"get">> \o RespondCalls
    /\ UNCHANGED <<request, typename, relname, resource_id, real_typename,
                   resource, relationship, store, staged, storeAtStart,
                   reqCount, prevDelete>>

-----------------------------------------------------------------------------
(* RelationshipHandler.post                                                *)

\* Variant: post() does not validate the payload.
PostStart_noValidation ==
    /\ Dispatch("POST")
    /\ IF ~relationship.to_many
       THEN Raise("MethodNotAllowed", <<"post">>)
       ELSE /\ pc' = "post_extend"
            /\ log' = log \o <<"post", "extend_relationship">>
            /\ err' = err
    /\ UNCHANGED <<request, typename, relname, resource_id, real_typename,
                   resource, relationship, response, store, staged,
                   storeAtStart, serialized, reqCount, prevDelete>>

\* Variant: post() stages the resource before it validates the payload.
PostStart_stageFirst ==
    /\ Dispatch("POST")
    /\ IF ~relationship.to_many
       THEN /\ Raise("MethodNotAllowed", <<"post">>)
            /\ UNCHANGED staged
       ELSE /\ staged' = DbSave(staged, resource)
            /\ IF ~ValidRelationshipObject(request.json)
               THEN Raise("ValidationError", <<"post", "db.save", "validate">>)
               ELSE /\ pc' = "post_extend"
                    /\ log' = log \o <<"post", "db.save", "validate",
                                       "extend_relationship">>
                    /\ err' = err
    /\ UNCHANGED <<request, typename, relname, resource_id, real_typename,
                   resource, relationship, response, store,
                   storeAtStart, serialized, reqCount, prevDelete>>

\* Variant: the payload is validated before the cardinality check.
PostStart_validateFirst ==
    /\ Dispatch("POST")
    /\ IF ~ValidRelationshipObject(request.json)
       THEN Raise("ValidationError", <<"post", "validate">>)
       ELSE IF ~relationship.to_many
       THEN Raise("MethodNotAllowed", <<"post", "validate">>)
       ELSE /\ pc' = "post_extend"
            /\ log' = log \o <<"post", "validate", "extend_relationship">>
            /\ err' = err
    /\ UNCHANGED <<request, typename, relname, resource_id, real_typename,
                   resource, relationship, response, store, staged,
                   storeAtStart, serialized, reqCount, prevDelete>>

\* post(), up to the suspension in "await unserializer.extend_relationship"
PostStart ==
    /\ Dispatch("POST")
    /\ IF ~relationship.to_many
       THEN Raise("MethodNotAllowed", <<"post">>)
       ELSE IF ~ValidRelationshipObject(request.json)
       THEN Raise("ValidationError", <<"post", "validate">>)
       ELSE /\ pc' = "post_extend"
            /\ log' = log \o <<"post", "validate", "extend_relationship">>
            /\ err' = err
    /\ UNCHANGED <<request, typename, relname, resource_id, real_typename,
                   resource, relationship, response, store, staged,
                   storeAtStart, serialized, reqCount, prevDelete>>

\* Variant: post() replaces the linkage instead of extending it.
PostExtended_replace ==
    /\ pc = "post_extend"
    /\ \/ /\ resource' = UpdateRelationship(resource, relname, request.json)
          /\ staged' = DbSave(staged,
                              UpdateRelationship(resource, relname, request.json))
          /\ pc' = "post_commit"
          /\ log' = log \o <<"mutated", "db.save", "db.commit">>
          /\ err' = err
       \/ /\ resource' \in {resource,
                            UpdateRelationship(resource, relname, request.json)}
          /\ Raise("UnserializerError", << >>)
          /\ UNCHANGED staged
       \/ /\ resource' = UpdateRelationship(resource, relname, request.json)
          /\ Raise("SaveError", <<"mutated", "db.save">>)
          /\ UNCHANGED staged
    /\ UNCHANGED <<request, typename, relname, resource_id, real_typename,
                   relationship, response, store, storeAtStart, serialized,
                   reqCount, prevDelete>>

\* post(), from the return of extend_relationship to the suspension in
\* "await self.db.commit()"; the unserializer may raise instead, leaving
\* the resource as it was or with the linkage already changed, and so may
\* db.save, before anything is staged
PostExtended ==
    /\ pc = "post_extend"
    /\ \/ /\ resource' = ExtendRelationship(resource, relname, request.json)
          /\ staged' = DbSave(staged,
                              ExtendRelationship(resource, relname, request.json))
          /\ pc' = "post_commit"
          /\ log' = log \o <<"mutated", "db.save", "db.commit">>
          /\ err' = err
       \/ /\ resource' \in {resource,
                            ExtendRelationship(resource, relname, request.json)}
          /\ Raise("UnserializerError", << >>)
          /\ UNCHANGED staged
       \/ /\ resource' = ExtendRelationship(resource, relname, request.json)
          /\ Raise("SaveError", <<"mutated", "db.save">>)
          /\ UNCHANGED staged
    /\ UNCHANGED <<request, typename, relname, resource_id, real_typename,
                   relationship, response, store, storeAtStart, serialized,
                   reqCount, prevDelete>>

\* post(), from the return of db.commit to the end; the commit may raise
PostCommitted ==
    /\ pc = "post_commit"
    /\ \/ /\ store' = DbCommit(store, staged)
          /\ \E ser \in SerializerOutputs : Respond(ser, resource)
          /\ log' = log \o <<"committed">> \o RespondCalls
       \/ /\ Raise("CommitError", << >>)
          /\ UNCHANGED <<store, response, serialized>>
    /\ UNCHANGED <<request, typename, relname, resource_id, real_typename,
                   resource, relationship, staged, storeAtStart, reqCount, prevDelete>>

-----------------------------------------------------------------------------
(* RelationshipHandler.patch                                               *)

\* Variant: patch() sets the header and the status first, as get() does.
PatchStart_respondEarly ==
    /\ Dispatch("PATCH")
    /\ response' = [response EXCEPT !.content_type = JSONAPI,
                                    !.status_code = 200]
    /\ IF ~ValidRelationshipObject(request.json)
       THEN Raise("ValidationError",
                  <<"patch", "set_headers", "set_status", "validate">>)
       ELSE /\ pc' = "patch_update"
            /\ log' = log \o <<"patch", "set_headers", "set_status",
                               "validate", "update_relationship">>
            /\ err' = err
    /\ UNCHANGED <<request, typename, relname, resource_id, real_typename,
                   resource, relationship, store, staged,
                   storeAtStart, serialized, reqCount, prevDelete>>

\* Variant: patch() makes the to-many check of post().
PatchStart_cardinality ==
    /\ Dispatch("PATCH")
    /\ IF ~relationship.to_many
       THEN Raise("MethodNotAllowed", <<"patch">>)
       ELSE IF ~ValidRelationshipObject(request.json)
       THEN Raise("ValidationError", <<"patch", "validate">>)
       ELSE /\ pc' = "patch_update"
            /\ log' = log \o <<"patch", "validate", "update_relationship">>
            /\ err' = err
    /\ UNCHANGED <<request, typename, relname, resource_id, real_typename,
                   resource, relationship, response, store, staged,
                   storeAtStart, serialized, reqCount, prevDelete>>

\* patch(), up to the suspension in "await unserializer.update_relationship"
PatchStart ==
    /\ Dispatch("PATCH")
    /\ IF ~ValidRelationshipObject(request.json)
       THEN Raise("ValidationError", <<"patch", "validate">>)
       ELSE /\ pc' = "patch_update"
            /\ log' = log \o <<"patch", "validate", "update_relationship">>
            /\ err' = err
    /\ UNCHANGED <<request, typename, relname, resource_id, real_typename,
                   resource, relationship, response, store, staged,
                   storeAtStart, serialized, reqCount, prevDelete>>

\* patch(), from the return of update_relationship to the suspension in
\* "await self.db.commit()"
PatchUpdated ==
    /\ pc = "patch_update"
    /\ \/ /\ resource' = UpdateRelationship(resource, relname, request.json)
          /\ staged' = DbSave(staged,
                              UpdateRelationship(resource, relname, request.json))
          /\ pc' = "patch_commit"
          /\ log' = log \o <<"mutated", "db.save", "db.commit">>
          /\ err' = err
       \/ /\ resource' \in {resource,
                            UpdateRelationship(resource, relname, request.json)}
          /\ Raise("UnserializerError", << >>)
          /\ UNCHANGED staged
       \/ /\ resource' = UpdateRelationship(resource, relname, request.json)
          /\ Raise("SaveError", <<"mutated", "db.save">>)
          /\ UNCHANGED staged
    /\ UNCHANGED <<request, typename, relname, resource_id, real_typename,
                   relationship, response, store, storeAtStart, serialized,
                   reqCount, prevDelete>>

\* patch(), from the return of db.commit to the end
PatchCommitted ==
    /\ pc = "patch_commit"
    /\ \/ /\ store' = DbCommit(store, staged)
          /\ \E ser \in SerializerOutputs : Respond(ser, resource)
          /\ log' = log \o <<"committed">> \o RespondCalls
       \/ /\ Raise("CommitError", << >>)
          /\ UNCHANGED <<store, response, serialized>>
    /\ UNCHANGED <<request, typename, relname, resource_id, real_typename,
                   resource, relationship, staged, storeAtStart, reqCount, prevDelete>>

-----------------------------------------------------------------------------
(* RelationshipHandler.delete                                              *)

\* Variant: delete() refuses a relationship that is empty already.
DeleteStart_failIfEmpty ==
    /\ Dispatch("DELETE")
    /\ IF resource.rels[relname] = {}
       THEN /\ Raise("NotFound", <<"delete">>)
            /\ UNCHANGED <<resource, staged>>
       ELSE /\ resource' = ClearRelationship(resource, relname)
            /\ staged' = DbSave(staged, ClearRelationship(resource, relname))
            /\ pc' = "delete_commit"
            /\ log' = log \o <<"delete", "clear_relationship", "mutated",
                               "db.save", "db.commit">>
            /\ err' = err
    /\ UNCHANGED <<request, typename, relname, resource_id, real_typename,
                   relationship, response, store, storeAtStart, serialized,
                   reqCount, prevDelete>>

\* Variant: delete() stages the resource before it clears the relationship.
DeleteStart_saveFirst ==
    /\ Dispatch("DELETE")
    /\ resource' = ClearRelationship(resource, relname)
    /\ \/ /\ staged' = DbSave(staged, resource)
          /\ pc' = "delete_commit"
          /\ log' = log \o <<"delete", "db.save", "clear_relationship",
                             "mutated", "db.commit">>
          /\ err' = err
       \/ /\ Raise("SaveError", <<"delete", "db.save">>)
          /\ UNCHANGED staged
    /\ UNCHANGED <<request, typename, relname, resource_id, real_typename,
                   relationship, response, store, storeAtStart, serialized,
                   reqCount, prevDelete>>

\* delete(), up to the suspension in "await self.db.commit()"
DeleteStart ==
    /\ Dispatch("DELETE")
    /\ resource' = ClearRelationship(resource, relname)
    /\ \/ /\ staged' = DbSave(staged, ClearRelationship(resource, relname))
          /\ pc' = "delete_commit"
          /\ log' = log \o <<"delete", "clear_relationship", "mutated",
                             "db.save", "db.commit">>
          /\ err' = err
       \/ /\ Raise("SaveError", <<"delete", "clear_relationship", "mutated",
                                  "db.save">>)
          /\ UNCHANGED staged
    /\ UNCHANGED <<request, typename, relname, resource_id, real_typename,
                   relationship, response, store, storeAtStart, serialized,
                   reqCount, prevDelete>>

\* Variant: delete() answers without the commit having been applied.
DeleteCommitted_noFlush ==
    /\ pc = "delete_commit"
    /\ \/ /\ store' = store
          /\ \E ser \in SerializerOutputs : Respond(ser, resource)
          /\ log' = log \o <<"committed">> \o RespondCalls
       \/ /\ Raise("CommitError", << >>)
          /\ UNCHANGED <<store, response, serialized>>
    /\ UNCHANGED <<request, typename, relname, resource_id, real_typename,
                   resource, relationship, staged, storeAtStart, reqCount,
                   prevDelete>>

\* delete(), from the return of db.commit to the end
DeleteCommitted ==
    /\ pc = "delete_commit"
    /\ \/ /\ store' = DbCommit(store, staged)
          /\ \E ser \in SerializerOutputs : Respond(ser, resource)
          /\ log' = log \o <<"committed">> \o RespondCalls
       \/ /\ Raise("CommitError", << >>)
          /\ UNCHANGED <<store, response, serialized>>
    /\ UNCHANGED <<request, typename, relname, resource_id, real_typename,
                   resource, relationship, staged, storeAtStart, reqCount, prevDelete>>

-----------------------------------------------------------------------------
(* Cancellation of the request's task while post(), patch() or delete() is *)
(* suspended in an await: CancelledError is raised at the await and        *)
(* propagates, no handler catches it.  While suspended in the unserializer *)
(* the linkage may or may not be changed in memory already.  A db.commit   *)
(* that is cancelled is not applied.                                       *)

AwaitUnserializer == {"post_extend", "patch_update"}

AwaitCommit == {"post_commit", "patch_commit", "delete_commit"}

\* db.commit() when the task is cancelled while suspended in it: the unit
\* of work is not applied
CancelledCommit(st, stg) == st

\* Variant: the handlers save and commit in a finally clause, which also
\* runs when the await of the unserializer is cancelled.
Cancel_finally ==
    /\ pc \in AwaitUnserializer \cup AwaitCommit
    /\ pc' = "cancelled"
    /\ err' = "CancelledError"
    /\ resource' \in
          IF pc = "post_extend"
          THEN {resource, ExtendRelationship(resource, relname, request.json)}
          ELSE IF pc = "patch_update"
          THEN {resource, UpdateRelationship(resource, relname, request.json)}
          ELSE {resource}
    /\ IF pc \in AwaitUnserializer
       THEN /\ staged' = DbSave(staged, resource')
            /\ store' = DbCommit(store, DbSave(staged, resource'))
            /\ log' = log \o <<"cancel", "db.save", "db.commit", "committed">>
       ELSE /\ staged' = staged
            /\ store' = CancelledCommit(store, staged)
            /\ log' = Append(log, "cancel")
    /\ UNCHANGED <<request, typename, relname, resource_id, real_typename,
                   relationship, response, storeAtStart, serialized,
                   reqCount, prevDelete>>

Cancel ==
    /\ pc \in AwaitUnserializer \cup AwaitCommit
    /\ pc' = "cancelled"
    /\ err' = "CancelledError"
    /\ log' = Append(log, "cancel")
    /\ resource' \in
          IF pc = "post_extend"
          THEN {resource, ExtendRelationship(resource, relname, request.json)}
          ELSE IF pc = "patch_update"
          THEN {resource, UpdateRelationship(resource, relname, request.json)}
          ELSE {resource}
    /\ store' = IF pc \in AwaitCommit
                THEN CancelledCommit(store, staged)
                ELSE store
    /\ UNCHANGED <<request, typename, relname, resource_id, real_typename,
                   relationship, response, staged, storeAtStart,
                   serialized, reqCount, prevDelete>>

-----------------------------------------------------------------------------
(* Between requests: the finished handler instance is discarded, and the   *)
(* next request gets a new instance, with a new unit of work, on the same  *)
(* durable records.                                                        *)

NoRequest == [content_type |-> <<"", "">>, method |-> "", json |-> NoJson]

\* The handler instance is dropped once its request has ended; what stays
\* is the durable store.
Discard ==
    /\ pc \in {"responded", "failed", "cancelled"}
    /\ reqCount < MaxRequests
    /\ prevDelete' =
          IF pc = "responded" /\ request.method = "DELETE"
          THEN [answered |-> TRUE, typename |-> typename,
                resource_id |-> resource_id, relname |-> relname,
                response |-> response, serialized |-> serialized]
          ELSE NoPrevDelete
    /\ request' = NoRequest
    /\ typename' = ""
    /\ relname' = ""
    /\ resource_id' = ""
    /\ real_typename' = NoTypename
    /\ resource' = None
    /\ relationship' = Unset
    /\ response' = NoResponse
    /\ pc' = "discarded"
    /\ err' = "none"
    /\ log' = << >>
    /\ staged' = << >>
    /\ serialized' = NoSerialized
    /\ storeAtStart' = store
    /\ UNCHANGED <<store, reqCount>>

\* RelationshipHandler.__init__ for the next request
NewRequest ==
    /\ pc = "discarded"
    /\ reqCount' = reqCount + 1
    /\ \E req \in Requests :
        /\ request' = [content_type |-> req.content_type,
                       method |-> req.method, json |-> req.json]
        /\ typename' = req.type
        /\ relname' = req.relname
        /\ resource_id' = req.id
    /\ UNCHANGED <<real_typename, resource, relationship, response, err, log,
                   store, staged, storeAtStart, serialized, prevDelete>>
    /\ pc' = "created"

Next ==
    \/ PrepareStart
    \/ PrepareResume
    \/ Get_
    \/ PostStart
    \/ PostExtended
    \/ PostCommitted
    \/ PatchStart
    \/ PatchUpdated
    \/ PatchCommitted
    \/ DeleteStart
    \/ DeleteCommitted
    \/ Cancel
    \/ Discard
    \/ NewRequest

Spec == Init /\ [][Next]_vars

-----------------------------------------------------------------------------
TypeOK ==
    /\ pc \in {"created", "prepare_get", "prepared", "post_extend",
               "post_commit", "patch_update", "patch_commit",
               "delete_commit", "responded", "failed", "cancelled",
               "discarded"}
    /\ err \in {"none", "UnsupportedMediaType", "NotFound",
                "MethodNotAllowed", "ValidationError", "UnserializerError",
                "SaveError", "CommitError", "CancelledError"}
    /\ reqCount \in 1..MaxRequests
    /\ DOMAIN store = {"1", "2"}

-----------------------------------------------------------------------------
(* Vocabulary of the properties.                                           *)

InLog(e) == \E i \in DOMAIN log : log[i] = e

Pos(e) == CHOOSE i \in DOMAIN log : log[i] = e

\* when b was called, a had been called before it
Before(a, b) == InLog(b) => (InLog(a) /\ Pos(a) < Pos(b))

PrepareDone == pc \notin {"discarded", "created", "prepare_get"}

HandlerStarted ==
    InLog("get") \/ InLog("post") \/ InLog("patch") \/ InLog("delete")

\* the record the gateway held for the request's key when the request began
Loaded == DbGet(storeAtStart, <<typename, resource_id>>)

\* the response document inside the encoded body
BodyDoc == response.body[2]

-----------------------------------------------------------------------------
\* C1: whenever the declared content type is not application/vnd.api+json,
\* prepare() ends by raising UnsupportedMediaType and nothing else is done
\* (no registry lookup result matters, no db.get), for every method,
\* typename, resource id and relname.
C1_UnsupportedMediaType ==
    (request.content_type[1] # JSONAPI /\ pc \notin {"discarded", "created"})
        => /\ pc = "failed"
           /\ err = "UnsupportedMediaType"
           /\ log = <<"prepare", "raise">>

\* C1 witness: a DELETE (no body) with a wrong content type on a path that
\* resolves has failed with UnsupportedMediaType.
C1_Witness ==
    /\ pc = "failed" /\ err = "UnsupportedMediaType"
    /\ request.method = "DELETE"
    /\ request.content_type[1] # JSONAPI
    /\ typename = "articles" /\ resource_id = "1" /\ relname = "comments"

\* The condition under which prepare() must report NotFound.
NotFoundCase ==
    \/ ~HasType(typename)
    \/ IsNone(Loaded)
    \/ relname \notin DOMAIN Relationships(GetTypename(Loaded))

\* C2: with the JSON:API content type, prepare() raises NotFound exactly
\* when the type is unregistered, the gateway has no resource for
\* (typename, id), or relname is not a relationship of the schema of the
\* resource's actual type; otherwise it returns normally.
C2_NotFound ==
    (request.content_type[1] = JSONAPI /\ PrepareDone)
        => IF NotFoundCase
           THEN pc = "failed" /\ err = "NotFound" /\ ~InLog("prepared")
           ELSE InLog("prepared")

\* C2 witness: a relationship declared on the requested type's subtype only,
\* requested on a resource that is not of that subtype, is NotFound.
C2_Witness ==
    /\ pc = "failed" /\ err = "NotFound"
    /\ typename = "articles" /\ resource_id = "1" /\ relname = "editor"
    /\ ~IsNone(resource)

\* C3: POST on a to-one relationship raises MethodNotAllowed before the
\* payload is validated, before extend_relationship, db.save and db.commit
\* are called; the resource, the unit of work and the stored records are
\* unchanged.
C3_PostToOne ==
    (request.method = "POST" /\ InLog("prepared") /\ pc # "prepared"
        /\ ~relationship.to_many)
        => /\ pc = "failed"
           /\ err = "MethodNotAllowed"
           /\ ~InLog("validate")
           /\ ~InLog("extend_relationship")
           /\ ~InLog("db.save")
           /\ ~InLog("db.commit")
           /\ resource = Loaded
           /\ staged = << >>
           /\ store = storeAtStart

\* C3 witness: a POST with a malformed payload on a to-one relationship has
\* failed with MethodNotAllowed.
C3_Witness ==
    /\ request.method = "POST"
    /\ InLog("post")
    /\ ~relationship.to_many
    /\ ~ValidRelationshipObject(request.json)
    /\ err = "MethodNotAllowed"

\* The linkage PATCH and DELETE leave, whatever the cardinality.
C4_Expected ==
    IF request.method = "PATCH" THEN request.json.data ELSE {}

\* C4: PATCH and DELETE never raise MethodNotAllowed, and their outcome is
\* determined without the to_many flag: PATCH fails validation exactly for
\* a malformed payload, and a completed PATCH or DELETE has mutated, saved
\* and committed the resource and answered 200.
C4_NoCardinalityCheck ==
    (request.method \in {"PATCH", "DELETE"} /\ InLog("prepared"))
        => /\ err # "MethodNotAllowed"
           /\ (pc # "prepared" /\ request.method = "PATCH")
                => (err = "ValidationError"
                        <=> ~ValidRelationshipObject(request.json))
           /\ pc = "responded"
                => /\ response.status_code = 200
                   /\ Before("mutated", "db.save")
                   /\ Before("db.save", "committed")
                   /\ InLog("committed")
                   /\ resource.rels[relname] = C4_Expected
                   /\ store[resource.id] = resource

\* C4 witness: a PATCH on a to-one relationship has been answered with 200.
C4_Witness ==
    /\ request.method = "PATCH"
    /\ pc = "responded"
    /\ relationship.defined /\ ~relationship.to_many
    /\ response.status_code = 200

-----------------------------------------------------------------------------
\* the links mapping of the serializer's fragment, empty when it has none
SerializedLinks ==
    IF Has(serialized, "links") THEN Get(serialized, "links") ELSE << >>

\* C5 as stated: a links.self or links.related value of the serializer's
\* fragment is preserved in the response document.
C5_SerializerLinksPreserved ==
    pc = "responded"
        => \A k \in {"self", "related"} :
              Has(SerializedLinks, k)
                  => Get(Get(BodyDoc, "links"), k) = Get(SerializedLinks, k)

\* C5 amended: build_body() always assigns links.self and links.related:
\* a value the serializer's fragment has for either key is replaced, in
\* place, by the reversed URL; the links mapping itself and its other keys
\* are kept as the serializer gave them.
C5_SerializerLinksOverwritten ==
    (pc = "responded" /\ Has(serialized, "links"))
        => LET sl == SerializedLinks
               bl == Get(BodyDoc, "links")
           IN  /\ Len(bl) >= Len(sl)
               /\ \A i \in DOMAIN sl :
                    /\ bl[i][1] = sl[i][1]
                    /\ sl[i][1] \notin {"self", "related"} => bl[i] = sl[i]
                    /\ sl[i][1] = "self"
                         => /\ bl[i][2] = ReverseUrl(typename, "relationship",
                                                     resource_id, relname)
                            /\ bl[i][2] # sl[i][2]
                    /\ sl[i][1] = "related"
                         => /\ bl[i][2] = ReverseUrl(typename, "related",
                                                     resource_id, relname)
                            /\ bl[i][2] # sl[i][2]

\* C5 witness: a response was built from a fragment that had links.self.
C5_Witness ==
    /\ pc = "responded"
    /\ Has(SerializedLinks, "self")

\* C6: every successful response document has links.self and links.related,
\* and they are the URLs reversed for the requested typename, resource id
\* and relname, not for real_typename.
C6_LinksFromRequestedType ==
    pc = "responded"
        => /\ Has(BodyDoc, "links")
           /\ Has(Get(BodyDoc, "links"), "self")
           /\ Has(Get(BodyDoc, "links"), "related")
           /\ Get(Get(BodyDoc, "links"), "self")
                = [typename |-> typename, endpoint |-> "relationship",
                   id |-> resource_id, relname |-> relname]
           /\ Get(Get(BodyDoc, "links"), "related")
                = [typename |-> typename, endpoint |-> "related",
                   id |-> resource_id, relname |-> relname]

\* C6 witness: a POST on a resource whose actual type differs from the
\* requested one has been answered.
C6_Witness ==
    /\ pc = "responded"
    /\ request.method = "POST"
    /\ real_typename # typename

\* C7: every successful response document has a jsonapi key: the
\* serializer's value when its fragment has one, the API's jsonapi object
\* otherwise.
C7_Jsonapi ==
    pc = "responded"
        => /\ Has(BodyDoc, "jsonapi")
           /\ Get(BodyDoc, "jsonapi")
                = IF Has(serialized, "jsonapi")
                  THEN Get(serialized, "jsonapi")
                  ELSE JsonapiObject

\* C7 witness: a response was built from a fragment that had its own
\* jsonapi value, different from the API's.
C7_Witness ==
    /\ pc = "responded"
    /\ Has(serialized, "jsonapi")
    /\ Get(serialized, "jsonapi") # JsonapiObject

-----------------------------------------------------------------------------
\* C8: within one request the steps keep their order: prepare() has
\* returned before the method handler starts; in POST, PATCH and DELETE the
\* unserializer's mutation is complete before db.save is called, db.save is
\* called before db.commit, and db.commit has returned before the headers,
\* the status and the body of the response are set.
C8_StepOrder ==
    /\ \A m \in {"get", "post", "patch", "delete"} : Before("prepared", m)
    /\ request.method \in {"POST", "PATCH", "DELETE"}
         => /\ \A u \in {"extend_relationship", "update_relationship",
                         "clear_relationship"} :
                  InLog(u) => (InLog("mutated") => Pos(u) < Pos("mutated"))
            /\ Before("mutated", "db.save")
            /\ Before("db.save", "db.commit")
            /\ Before("db.commit", "committed")
            /\ \A e \in {"set_headers", "set_status", "build_body", "set_body"} :
                  Before("committed", e)
            /\ pc = "responded" => InLog("committed") /\ InLog("set_body")

\* C8 witness: a DELETE ran through mutation, save, commit and response.
C8_Witness ==
    /\ pc = "responded"
    /\ request.method = "DELETE"
    /\ InLog("mutated") /\ InLog("db.save") /\ InLog("committed")

\* C9 as stated: resource and real_typename are None unless prepare() has
\* succeeded, and no method handler runs before it has.
C9_UnsetUnlessPrepared ==
    /\ ~InLog("prepared") => (IsNone(resource) /\ real_typename = NoTypename)
    /\ HandlerStarted => InLog("prepared")

\* prepare() failed with NotFound because relname is not declared on the
\* actual type of the resource it loaded
UndeclaredRelnameCase ==
    /\ pc = "failed" /\ err = "NotFound" /\ ~InLog("prepared")
    /\ HasType(typename)
    /\ ~IsNone(Loaded)

\* C9 amended: resource and real_typename are None until prepare() has
\* loaded a resource with db.get; they are still None after a failure with
\* UnsupportedMediaType or with NotFound for an unregistered type or an
\* absent resource, but set after a NotFound for an undeclared relname;
\* the relationship descriptor is set exactly when prepare() succeeded; no
\* method handler runs before prepare() succeeded.
C9_UnsetUntilLoaded ==
    /\ IsNone(resource) <=> real_typename = NoTypename
    /\ ~IsNone(resource)
         => /\ InLog("db.get") /\ pc # "prepare_get"
            /\ real_typename = GetTypename(resource)
    /\ (PrepareDone /\ ~InLog("prepared") /\ ~UndeclaredRelnameCase)
         => IsNone(resource)
    /\ UndeclaredRelnameCase
         => /\ resource = Loaded
            /\ real_typename = GetTypename(Loaded)
    /\ relationship.defined <=> InLog("prepared")
    /\ HandlerStarted => InLog("prepared")
    /\ \A m \in {"get", "post", "patch", "delete"} : Before("prepared", m)

\* C9 witness: prepare() failed with NotFound for an undeclared relname and
\* left the loaded resource and its type in the handler.
C9_Witness ==
    /\ UndeclaredRelnameCase
    /\ ~IsNone(resource)
    /\ real_typename # NoTypename
    /\ ~relationship.defined

\* the in-memory resource differs from the record that was loaded
Mutated == ~IsNone(resource) /\ resource # Loaded

\* C10 as stated: after a failed request the resource is either mutated,
\* saved and committed completely, or not mutated and not staged at all.
C10_AllOrNothing ==
    pc = "failed"
        => \/ /\ Mutated
              /\ staged # << >>
              /\ store[resource.id] = resource
           \/ /\ ~Mutated
              /\ staged = << >>

\* C10 amended: a failure ends the request at once (nothing is called after
\* the raise, no response is written) and nothing is persisted; a failure
\* in prepare(), the cardinality check or the validation leaves the
\* resource unmutated and nothing staged; a failure of the unserializer or
\* of db.save leaves nothing staged, the resource possibly mutated in
\* memory; a failure of db.commit leaves the resource mutated in memory and
\* staged, but not committed.
C10_FailureAborts ==
    pc = "failed"
        => /\ log[Len(log)] = "raise"
           /\ \A i \in 1..(Len(log) - 1) : log[i] # "raise"
           /\ response = NoResponse
           /\ store = storeAtStart
           /\ err \in {"UnsupportedMediaType", "NotFound", "MethodNotAllowed",
                       "ValidationError"}
                => /\ ~Mutated
                   /\ staged = << >>
                   /\ ~InLog("mutated") /\ ~InLog("db.save")
           /\ err \in {"UnserializerError", "SaveError"}
                => /\ staged = << >>
                   /\ ~InLog("db.commit")
           /\ err = "CommitError"
                => /\ InLog("mutated")
                   /\ staged = <<resource>>
                   /\ ~InLog("committed")

\* C10 witness: db.commit failed after a mutation that changed the linkage:
\* the resource is changed in memory and staged, the stored record is not.
C10_Witness ==
    /\ pc = "failed" /\ err = "CommitError"
    /\ Mutated
    /\ staged = <<resource>>
    /\ store[resource.id] # resource

-----------------------------------------------------------------------------
\* C11: in POST on a to-many relationship and in PATCH, a payload that
\* assert_relationship_object rejects makes the handler raise the
\* validation error before the unserializer is called: the resource is not
\* mutated, db.save and db.commit are not called, and no response body or
\* status is set.
C11_MalformedPayload ==
    (/\ InLog("prepared") /\ pc # "prepared"
     /\ \/ request.method = "POST" /\ relationship.to_many
        \/ request.method = "PATCH"
     /\ ~ValidRelationshipObject(request.json))
        => /\ pc = "failed"
           /\ err = "ValidationError"
           /\ InLog("validate")
           /\ ~InLog("extend_relationship")
           /\ ~InLog("update_relationship")
           /\ ~InLog("mutated")
           /\ ~InLog("db.save")
           /\ ~InLog("db.commit")
           /\ resource = Loaded
           /\ staged = << >>
           /\ store = storeAtStart
           /\ response = NoResponse

\* C11 witness: a POST with a malformed payload on a to-many relationship
\* has failed with the validation error.
C11_Witness ==
    /\ request.method = "POST"
    /\ InLog("prepared")
    /\ relationship.to_many
    /\ ~ValidRelationshipObject(request.json)
    /\ pc = "failed" /\ err = "ValidationError"

-----------------------------------------------------------------------------
\* C12: a method handler that returns normally leaves status code 200, the
\* content-type header application/vnd.api+json and, as body, the encoded
\* document build_body() makes of the handler's resource as it is then.
C12_Response ==
    pc = "responded"
        => /\ response.status_code = 200
           /\ response.content_type = JSONAPI
           /\ response.body[1] = "json"
           /\ Get(BodyDoc, "data") = resource.rels[relname]
           /\ \E ser \in SerializerOutputs :
                /\ serialized = SerializeRelationship(ser, resource, relname)
                /\ response.body = BuildBody(ser, resource, real_typename,
                                             typename, resource_id, relname)

\* C12 witness: a POST that changed the linkage has been answered.
C12_Witness ==
    /\ pc = "responded"
    /\ request.method = "POST"
    /\ resource # Loaded
    /\ response.status_code = 200

-----------------------------------------------------------------------------
\* this request addresses the path of the DELETE answered just before it
SamePathAsPrevDelete ==
    /\ prevDelete.answered
    /\ prevDelete.typename = typename
    /\ prevDelete.resource_id = resource_id
    /\ prevDelete.relname = relname

\* C13: a DELETE (with the JSON:API content type) that directly follows an
\* answered DELETE on the same path resolves like the first, is not
\* refused by the handler, and when answered has status 200, cleared
\* linkage like the first response, the same body as the first whenever
\* the serializer returns the same fragment, and leaves the stored records
\* as the first DELETE left them.
C13_DeleteIdempotent ==
    (/\ request.method = "DELETE"
     /\ request.content_type[1] = JSONAPI
     /\ SamePathAsPrevDelete)
        => /\ prevDelete.response.status_code = 200
           /\ Get(prevDelete.response.body[2], "data") = {}
           /\ PrepareDone => InLog("prepared")
           /\ pc = "failed" => err \in {"SaveError", "CommitError"}
           /\ pc = "responded"
                => /\ response.status_code = 200
                   /\ Get(BodyDoc, "data") = {}
                   /\ \A k \in {"self", "related"} :
                        Get(Get(BodyDoc, "links"), k)
                          = Get(Get(prevDelete.response.body[2], "links"), k)
                   /\ serialized = prevDelete.serialized
                        => response = prevDelete.response
                   /\ store = storeAtStart

\* C13 witness: the second of two successive DELETEs on one path has been
\* answered with the response of the first.
C13_Witness ==
    /\ request.method = "DELETE"
    /\ SamePathAsPrevDelete
    /\ pc = "responded"
    /\ response = prevDelete.response

-----------------------------------------------------------------------------
\* C14: once a DELETE has been answered the persisted linkage of the
\* relationship is empty, whatever it was before; a GET (with the JSON:API
\* content type) that directly follows on the same path loads that record,
\* is answered with status 200 and its data is empty.
C14_DeleteThenGet ==
    /\ (request.method = "DELETE" /\ pc = "responded")
         => store[resource.id].rels[relname] = {}
    /\ (/\ request.method = "GET"
        /\ request.content_type[1] = JSONAPI
        /\ SamePathAsPrevDelete)
         => /\ Loaded.rels[relname] = {}
            /\ PrepareDone => InLog("prepared")
            /\ pc # "failed"
            /\ pc = "responded"
                 => /\ response.status_code = 200
                    /\ Get(BodyDoc, "data") = {}

\* C14 witness: a GET has been answered right after a DELETE of a
\* relationship that was not empty at first.
C14_Witness ==
    /\ request.method = "GET"
    /\ SamePathAsPrevDelete
    /\ pc = "responded"
    /\ resource_id = "1" /\ relname = "comments"
    /\ InitStore["1"].rels["comments"] # {}
    /\ Get(BodyDoc, "data") = {}

-----------------------------------------------------------------------------
\* C15: an answered POST on a to-many relationship whose relationship
\* object holds one identifier that was not linked leaves the persisted
\* linkage equal to the previous linkage plus that member: nothing is
\* removed, the size grows by one, and the status is 200.
C15_PostAppendsOne ==
    (/\ request.method = "POST"
     /\ pc = "responded"
     /\ Cardinality(request.json.data) = 1
     /\ request.json.data \cap Loaded.rels[relname] = {})
        => /\ relationship.to_many
           /\ store[resource_id].rels[relname]
                = Loaded.rels[relname] \cup request.json.data
           /\ Loaded.rels[relname] \subseteq store[resource_id].rels[relname]
           /\ Cardinality(store[resource_id].rels[relname])
                = Cardinality(Loaded.rels[relname]) + 1
           /\ response.status_code = 200
           /\ Get(BodyDoc, "data") = store[resource_id].rels[relname]

\* C15 witness: a POST of one new member to a linkage of one member has
\* been answered, and two members are persisted.
C15_Witness ==
    /\ request.method = "POST"
    /\ pc = "responded"
    /\ Cardinality(Loaded.rels[relname]) = 1
    /\ Cardinality(request.json.data) = 1
    /\ Cardinality(store[resource_id].rels[relname]) = 2

-----------------------------------------------------------------------------
\* C16: when the request is cancelled while post(), patch() or delete() is
\* suspended in the unserializer or in db.commit, the handler calls nothing
\* after the cancellation point (no db.save, no db.commit, no response),
\* the in-memory mutation is not persisted: the stored records are those
\* of the start of the request; a cancellation in the unserializer leaves
\* nothing staged.
C16_Cancellation ==
    pc = "cancelled"
        => /\ log[Len(log)] = "cancel"
           /\ \A i \in 1..(Len(log) - 1) : log[i] # "cancel"
           /\ ~InLog("committed")
           /\ store = storeAtStart
           /\ response = NoResponse
           /\ ~InLog("db.commit")
                => (staged = << >> /\ ~InLog("db.save"))
           /\ InLog("db.commit")
                => (staged = <<resource>> /\ InLog("mutated"))

\* C16 witness: a POST cancelled inside extend_relationship has its
\* linkage changed in memory and nothing staged or stored.
C16_Witness ==
    /\ pc = "cancelled"
    /\ request.method = "POST"
    /\ ~InLog("db.save")
    /\ resource # Loaded
    /\ store = storeAtStart

-----------------------------------------------------------------------------
\* C17: prepare() checks content type, type registered, resource exists,
\* relationship declared, in this order, and the first check that fails
\* decides the error; db.get is not called when the content type is wrong
\* or the type unregistered, and at most once otherwise; prepare() calls
\* neither the unserializer nor db.save nor db.commit.
C17_PrepareOrder ==
    /\ (pc # "discarded"
          /\ (request.content_type[1] # JSONAPI \/ ~HasType(typename)))
         => ~InLog("db.get")
    /\ Cardinality({i \in DOMAIN log : log[i] = "db.get"}) <= 1
    /\ PrepareDone
         => IF request.content_type[1] # JSONAPI
            THEN err = "UnsupportedMediaType" /\ log = <<"prepare", "raise">>
            ELSE IF ~HasType(typename)
            THEN err = "NotFound" /\ log = <<"prepare", "raise">>
            ELSE IF IsNone(Loaded)
            THEN /\ err = "NotFound"
                 /\ log = <<"prepare", "db.get", "raise">>
                 /\ real_typename = NoTypename
            ELSE IF relname \notin DOMAIN Relationships(GetTypename(Loaded))
            THEN /\ err = "NotFound"
                 /\ log = <<"prepare", "db.get", "raise">>
                 /\ real_typename = GetTypename(Loaded)
            ELSE SubSeq(log, 1, 3) = <<"prepare", "db.get", "prepared">>
    /\ ~InLog("prepared")
         => /\ \A i \in DOMAIN log : log[i] \in {"prepare", "db.get", "raise"}
            /\ staged = << >>
            /\ store = storeAtStart

\* C17 witness: a request that fails both the content-type check and the
\* type lookup has been refused with UnsupportedMediaType, without db.get.
C17_Witness ==
    /\ pc = "failed"
    /\ request.content_type[1] # JSONAPI
    /\ ~HasType(typename)
    /\ err = "UnsupportedMediaType"
    /\ ~InLog("db.get")

-----------------------------------------------------------------------------
\* C18: a GET request has no persistence side effect: get() calls neither
\* the unserializer nor db.save nor db.commit, and the resource, the unit
\* of work and the stored records are after get() what they were before.
C18_GetReadOnly ==
    request.method = "GET"
        => /\ \A e \in {"extend_relationship", "update_relationship",
                        "clear_relationship", "mutated", "db.save",
                        "db.commit", "committed"} : ~InLog(e)
           /\ staged = << >>
           /\ store = storeAtStart
           /\ InLog("prepared") => resource = Loaded
           /\ pc = "responded"
                => /\ log = <<"prepare", "db.get", "prepared", "get">>
                           \o RespondCalls
                   /\ Get(BodyDoc, "data") = storeAtStart[resource_id].rels[relname]

\* C18 witness: a GET on a linked relationship has been answered.
C18_Witness ==
    /\ request.method = "GET"
    /\ pc = "responded"
    /\ resource = Loaded
    /\ Get(BodyDoc, "data") # {}

-----------------------------------------------------------------------------
\* C19: after a successful prepare() the stored descriptor is the entry of
\* relname in the schema of real_typename, the actual type of the loaded
\* resource, not of the requested typename; so POST is refused with
\* MethodNotAllowed exactly when the actual type declares relname to-one.
C19_DescriptorOfActualType ==
    InLog("prepared")
        => /\ real_typename = GetTypename(Loaded)
           /\ relationship.defined
           /\ relationship.to_many
                = Relationships(real_typename)[relname].to_many
           /\ (request.method = "POST" /\ InLog("post"))
                => (err = "MethodNotAllowed"
                      <=> ~Relationships(GetTypename(Loaded))[relname].to_many)

\* C19 witness: a POST on a relationship that the requested type declares
\* to-one and the actual type to-many has passed the cardinality check.
C19_Witness ==
    /\ request.method = "POST"
    /\ InLog("post")
    /\ real_typename # typename
    /\ relname \in DOMAIN Relationships(typename)
    /\ ~Relationships(typename)[relname].to_many
    /\ relationship.to_many
    /\ err # "MethodNotAllowed"

-----------------------------------------------------------------------------
\* how often e was called by this handler instance
Count(e) == Cardinality({i \in DOMAIN log : log[i] = e})

\* C20: in POST, PATCH and DELETE the response (header, status, body) is
\* written only after db.commit has returned; when an earlier step raises,
\* the response is as it was before the handler started; an answered
\* request has called db.save once, with the handler's resource, and then
\* db.commit once.
C20_ResponseAfterCommit ==
    request.method \in {"POST", "PATCH", "DELETE"}
        => /\ response # NoResponse
                => /\ pc = "responded"
                   /\ InLog("committed")
                   /\ \A e \in {"set_headers", "set_status", "set_body"} :
                         InLog(e) /\ Pos("committed") < Pos(e)
           /\ pc = "failed"
                => /\ response = NoResponse
                   /\ \A e \in {"set_headers", "set_status", "set_body"} :
                         ~InLog(e)
           /\ pc = "responded"
                => /\ Count("db.save") = 1
                   /\ Count("db.commit") = 1
                   /\ Count("committed") = 1
                   /\ Pos("db.save") < Pos("db.commit")
                   /\ staged = <<resource>>
                   /\ store[resource.id] = resource

\* C20 witness: a PATCH whose commit failed has left the response
\* untouched, with the resource staged.
C20_Witness ==
    /\ request.method = "PATCH"
    /\ pc = "failed"
    /\ err = "CommitError"
    /\ staged = <<resource>>
    /\ response = NoResponse

====
